---- MODULE Spec2Model ----
(***************************************************************************)
(* Loan eligibility pre-screening app (src/app.py), a Streamlit script.    *)
(*                                                                         *)
(* One server process hosts several browser sessions.  Every user event    *)
(* (connecting, changing a widget, pressing the button, asking for a       *)
(* rerun) makes the session run the whole script top to bottom.  The only  *)
(* state shared by the sessions is the st.cache_resource entry that holds  *)
(* the return value of load_model().                                       *)
(*                                                                         *)
(* Units: money is counted in sen (1/100 RM), probabilities in basis       *)
(* points (1/10000), so that the floats of the script are exact integers   *)
(* on the values the model draws.                                          *)
(***************************************************************************)
EXTENDS Integers, Sequences, FiniteSets

VARIABLES
    file,       \* content of best_risk_model_pipeline.joblib on disk
    cache,      \* the st.cache_resource entry of load_model()
    lock,       \* holder of the cache's compute lock
    diskReads,  \* number of joblib.load calls made by the process
    loads,      \* number of joblib.load calls that returned an artifact
    kept,       \* a result somebody wrote down, to compare a later one with
    pc,         \* per session: position of its script run
    trigger,    \* per session: the event that started the current run
    widgets,    \* per session: the values of the seven sidebar widgets
    model,      \* per session: the script's global `model`
    input_df,   \* per session: the feature row of this run, if built
    display,    \* per session: the elements this run has emitted
    outcome,    \* per session: how the last finished run ended
    attempts    \* per session: joblib.load calls made by the current run

vars == <<file, cache, lock, diskReads, loads, kept, pc, trigger, widgets,
          model, input_df, display, outcome, attempts>>

-----------------------------------------------------------------------------
(* Bounds *)

Sessions == {"s1", "s2"}
FormSession == "s1"
NoSession == "nobody"
MaxReads == 3

Models == {"m1", "m2"}
NoModel == "none"
FileStates == {"absent", "corrupt"} \cup Models

Ages == {18, 25, 60}
Educations == {"Associate", "Bachelor", "Master"}
YesNo == {"No", "Yes"}
HomeOwnerships == {"Rent", "Own", "Mortgage"}
Incomes == {0, 50, 400000}
LoanAmounts == {0, 50000, 300000}

Fields == {"age", "education", "is_fresh_grad", "home_ownership",
           "previous_default", "income", "loan_amount"}
ConcurrentFields == {"is_fresh_grad"}

Domain(f) ==
    CASE f = "age" -> Ages
      [] f = "education" -> Educations
      [] f = "is_fresh_grad" -> YesNo
      [] f = "home_ownership" -> HomeOwnerships
      [] f = "previous_default" -> YesNo
      [] f = "income" -> Incomes
      [] f = "loan_amount" -> LoanAmounts

DefaultWidgets ==
    [age |-> 25, education |-> "Associate", is_fresh_grad |-> "No",
     home_ownership |-> "Rent", previous_default |-> "No",
     income |-> 0, loan_amount |-> 0]

-----------------------------------------------------------------------------
(* Pure parts of the script *)

Max(a, b) == IF a >= b THEN a ELSE b
Min(a, b) == IF a <= b THEN a ELSE b

OneRinggit == 100

\* loan_amount / max(income, 1), as the fraction <<numerator, denominator>>
LoanToIncome(loan_amount, income) == <<loan_amount, Max(income, OneRinggit)>>

\* f"{x:.2f}": the hundredths of x, ties to even (exact on the ratios drawn
\* here, which are all binary fractions)
Fmt2(r) ==
    LET q == (100 * r[1]) \div r[2]
        rem == (100 * r[1]) % r[2]
    IN  IF 2 * rem > r[2] THEN q + 1
        ELSE IF 2 * rem = r[2] THEN q + (q % 2)
        ELSE q

FreshEmpExp == 0
FreshCredHist == 0
FreshCreditScore == 600
StdEmpExp == 5
StdCredHist == 5
StdCreditScore == 700

\* A variant that also treats young applicants as fresh graduates.
AssumptionsByAge(w) ==
    IF w.is_fresh_grad = "Yes" \/ w.age < 25
    THEN [emp_exp |-> FreshEmpExp, cred_hist |-> FreshCredHist,
          credit_score |-> FreshCreditScore]
    ELSE [emp_exp |-> StdEmpExp, cred_hist |-> StdCredHist,
          credit_score |-> StdCreditScore]

Assumptions(w) ==
    IF w.is_fresh_grad = "Yes"
    THEN [emp_exp |-> FreshEmpExp, cred_hist |-> FreshCredHist,
          credit_score |-> FreshCreditScore]
    ELSE [emp_exp |-> StdEmpExp, cred_hist |-> StdCredHist,
          credit_score |-> StdCreditScore]

IntRate == 1000

\* A variant with the two money columns exchanged.
BuildRowSwapped(w) ==
    LET a == Assumptions(w)
    IN  [person_age |-> w.age,
         person_gender |-> "Male",
         person_education |-> w.education,
         person_emp_exp |-> a.emp_exp,
         person_income |-> w.loan_amount,
         loan_amnt |-> w.income,
         loan_intent |-> "Personal",
         loan_int_rate |-> IntRate,
         loan_percent_income |-> LoanToIncome(w.loan_amount, w.income),
         cb_person_cred_hist_length |-> a.cred_hist,
         credit_score |-> a.credit_score,
         person_home_ownership |-> w.home_ownership,
         previous_loan_defaults_on_file |-> w.previous_default]

BuildRow(w) ==
    LET a == Assumptions(w)
    IN  [person_age |-> w.age,
         person_gender |-> "Male",
         person_education |-> w.education,
         person_emp_exp |-> a.emp_exp,
         person_income |-> w.income,
         loan_amnt |-> w.loan_amount,
         loan_intent |-> "Personal",
         loan_int_rate |-> IntRate,
         loan_percent_income |-> LoanToIncome(w.loan_amount, w.income),
         cb_person_cred_hist_length |-> a.cred_hist,
         credit_score |-> a.credit_score,
         person_home_ownership |-> w.home_ownership,
         previous_loan_defaults_on_file |-> w.previous_default]

\* The artifact is opaque: a deterministic map from a feature row to the
\* probability of the positive class.  Two stand-ins, each reading every
\* column the user controls, whose values land on and next to the thresholds.
ProbGrid == <<0, 4999, 5000, 7499, 7500, 7999, 8000, 10000>>

Code(x) ==
    CASE x \in {"Associate", "Rent", "No"} -> 0
      [] x \in {"Bachelor", "Own", "Yes"} -> 1
      [] x \in {"Master", "Mortgage"} -> 2

PredictProba(m, row) ==
    LET k == row.person_age + Code(row.person_education)
             + 3 * Code(row.person_home_ownership)
             + Code(row.previous_loan_defaults_on_file)
             + row.person_income \div 50 + row.loan_amnt \div 50000
             + row.person_emp_exp + row.credit_score \div 100
             + (IF m = "m1" THEN 0 ELSE 3)
    IN  ProbGrid[1 + (k % Len(ProbGrid))]

\* min(int(prob * 100), 100)
Progress(prob) == Min(prob \div 100, 100)

FreshThreshold == 8000
LikelyThreshold == 7500
BorderlineThreshold == 5000

El(kind, text, value) == [kind |-> kind, text |-> text, value |-> value]

\* A variant whose comparisons are strict.
RecommendationStrict(is_fresh_grad, prob) ==
    IF is_fresh_grad = "Yes"
    THEN <<El("warning", "manual_review", <<>>),
           IF prob > FreshThreshold
           THEN El("info", "conditional_approval", <<>>)
           ELSE El("info", "further_assessment", <<>>)>>
    ELSE IF prob > LikelyThreshold
         THEN <<El("success", "likely_eligible", <<>>)>>
         ELSE IF prob > BorderlineThreshold
              THEN <<El("warning", "borderline", <<>>)>>
              ELSE <<El("error", "low_likelihood", <<>>)>>

\* A variant whose second test is an `if`, not an `elif`.
RecommendationNoElif(is_fresh_grad, prob) ==
    IF is_fresh_grad = "Yes"
    THEN <<El("warning", "manual_review", <<>>),
           IF prob >= FreshThreshold
           THEN El("info", "conditional_approval", <<>>)
           ELSE El("info", "further_assessment", <<>>)>>
    ELSE (IF prob >= LikelyThreshold
          THEN <<El("success", "likely_eligible", <<>>)>> ELSE <<>>)
         \o (IF prob >= BorderlineThreshold
             THEN <<El("warning", "borderline", <<>>)>>
             ELSE <<El("error", "low_likelihood", <<>>)>>)

Recommendation(is_fresh_grad, prob) ==
    IF is_fresh_grad = "Yes"
    THEN <<El("warning", "manual_review", <<>>),
           IF prob >= FreshThreshold
           THEN El("info", "conditional_approval", <<>>)
           ELSE El("info", "further_assessment", <<>>)>>
    ELSE IF prob >= LikelyThreshold
         THEN <<El("success", "likely_eligible", <<>>)>>
         ELSE IF prob >= BorderlineThreshold
              THEN <<El("warning", "borderline", <<>>)>>
              ELSE <<El("error", "low_likelihood", <<>>)>>

FormElements(w) ==
    <<El("info", w.is_fresh_grad, <<w.income, w.loan_amount>>),
      El("write", "loan_to_income",
         <<Fmt2(LoanToIncome(w.loan_amount, w.income))>>)>>

ResultElements(w, prob) ==
    <<El("metric", "probability", <<prob>>),
      El("progress", "indicator", <<Progress(prob)>>)>>
    \o Recommendation(w.is_fresh_grad, prob)

Footer == <<El("caption", "disclaimer", <<>>)>>

\* A variant that runs the check on every script run.
AlwaysPressed(t) == TRUE

ButtonPressed(t) == t = "button"

-----------------------------------------------------------------------------
(* st.cache_resource *)

CacheHit(c) == c # NoModel

\* A variant that computes without looking again under the lock.
NoRecheck(c) == FALSE

RecheckHit(c) == c # NoModel

\* A variant that does not wait for the lock.
NoLock(l) == TRUE

LockIsFree(l) == l = NoSession

\* A variant that keeps nothing.
NoStore(artifact) == NoModel

Store(artifact) == artifact
Loadable(f) == f \in Models

-----------------------------------------------------------------------------
Init ==
    /\ file \in FileStates
    /\ cache = NoModel
    /\ lock = NoSession
    /\ diskReads = 0
    /\ loads = 0
    /\ kept = <<>>
    /\ pc = [s \in Sessions |-> "idle"]
    /\ trigger = [s \in Sessions |-> "none"]
    /\ widgets = [s \in Sessions |-> DefaultWidgets]
    /\ model = [s \in Sessions |-> NoModel]
    /\ input_df = [s \in Sessions |-> <<>>]
    /\ display = [s \in Sessions |-> <<>>]
    /\ outcome = [s \in Sessions |-> "NotStarted"]
    /\ attempts = [s \in Sessions |-> 0]

-----------------------------------------------------------------------------
(* Events that start a script run *)

\* The script's namespace and the session's output start empty on every run.
StartRun(s, t) ==
    /\ pc[s] = "idle"
    /\ cache # NoModel \/ diskReads < MaxReads
    /\ pc' = [pc EXCEPT ![s] = "load_model"]
    /\ trigger' = [trigger EXCEPT ![s] = t]
    /\ model' = [model EXCEPT ![s] = NoModel]
    /\ input_df' = [input_df EXCEPT ![s] = <<>>]
    /\ display' = [display EXCEPT ![s] = <<>>]
    /\ attempts' = [attempts EXCEPT ![s] = 0]
    /\ kept' = IF kept # <<>> /\ kept[1].session = s
               THEN <<[kept[1] EXCEPT !.rerun = TRUE]>>
               ELSE kept
    /\ UNCHANGED <<file, cache, lock, diskReads, loads, outcome>>

\* The widgets exist on the page only after a run that got past load_model().
FormOnPage(s) == outcome[s] \in {"AwaitingSubmission", "ResultDisplayed"}

Connect(s) ==
    /\ outcome[s] = "NotStarted"
    /\ StartRun(s, "connect")
    /\ UNCHANGED widgets

Rerun(s) ==
    /\ outcome[s] # "NotStarted"
    /\ StartRun(s, "rerun")
    /\ UNCHANGED widgets

SetWidget(s, f, v) ==
    /\ FormOnPage(s)
    /\ v # widgets[s][f]
    /\ widgets' = [widgets EXCEPT ![s][f] = v]
    /\ StartRun(s, "widget")

PressButton(s) ==
    /\ FormOnPage(s)
    /\ StartRun(s, "button")
    /\ UNCHANGED widgets

-----------------------------------------------------------------------------
(* model = load_model() *)

session_vars == <<trigger, widgets, input_df, outcome>>

\* Lock-free lookup of the cached value.
CacheLookup(s) ==
    /\ pc[s] = "load_model"
    /\ IF CacheHit(cache)
       THEN /\ model' = [model EXCEPT ![s] = cache]
            /\ pc' = [pc EXCEPT ![s] = "render"]
       ELSE /\ pc' = [pc EXCEPT ![s] = "miss"]
            /\ UNCHANGED model
    /\ UNCHANGED <<file, cache, lock, diskReads, loads, kept, display,
                   attempts, session_vars>>

\* A miss takes the compute lock and looks again before computing.
AcquireAndRecheck(s) ==
    /\ pc[s] = "miss"
    /\ LockIsFree(lock)
    /\ IF RecheckHit(cache)
       THEN /\ model' = [model EXCEPT ![s] = cache]
            /\ pc' = [pc EXCEPT ![s] = "render"]
            /\ UNCHANGED lock
       ELSE /\ lock' = s
            /\ pc' = [pc EXCEPT ![s] = "compute"]
            /\ UNCHANGED model
    /\ UNCHANGED <<file, cache, diskReads, loads, kept, display, attempts,
                   session_vars>>

\* joblib.load returns the artifact: it is cached and the lock released.
JoblibLoadReturn(s) ==
    /\ pc[s] = "compute"
    /\ Loadable(file)
    /\ diskReads' = diskReads + 1
    /\ loads' = loads + 1
    /\ attempts' = [attempts EXCEPT ![s] = @ + 1]
    /\ cache' = Store(file)
    /\ model' = [model EXCEPT ![s] = file]
    /\ lock' = NoSession
    /\ pc' = [pc EXCEPT ![s] = "render"]
    /\ UNCHANGED <<file, kept, display, session_vars>>

\* A variant that swallows the exception and goes on with a default model.
JoblibLoadFallback(s) ==
    /\ pc[s] = "compute"
    /\ ~Loadable(file)
    /\ diskReads' = diskReads + 1
    /\ attempts' = [attempts EXCEPT ![s] = @ + 1]
    /\ lock' = NoSession
    /\ model' = [model EXCEPT ![s] = "m1"]
    /\ pc' = [pc EXCEPT ![s] = "render"]
    /\ UNCHANGED <<file, cache, loads, kept, display, session_vars>>

\* A variant that tries the read again in the same run.
JoblibLoadRetry(s) ==
    /\ pc[s] = "compute"
    /\ ~Loadable(file)
    /\ diskReads' = diskReads + 1
    /\ attempts' = [attempts EXCEPT ![s] = @ + 1]
    /\ UNCHANGED <<file, cache, lock, loads, kept, pc, model, display,
                   session_vars>>

\* joblib.load raises: nothing is cached, the exception ends the run and
\* Streamlit shows it in place of the page.
JoblibLoadRaise(s) ==
    /\ pc[s] = "compute"
    /\ ~Loadable(file)
    /\ diskReads' = diskReads + 1
    /\ attempts' = [attempts EXCEPT ![s] = @ + 1]
    /\ lock' = NoSession
    /\ display' = [display EXCEPT ![s] = <<El("exception", file, <<>>)>>]
    /\ outcome' = [outcome EXCEPT ![s] = "ModelUnavailable"]
    /\ pc' = [pc EXCEPT ![s] = "idle"]
    /\ UNCHANGED <<file, cache, loads, kept, model, trigger, widgets,
                   input_df>>

-----------------------------------------------------------------------------
(* The page *)

\* Title, sidebar widgets, application summary and loan-to-income ratio.
RenderForm(s) ==
    /\ pc[s] = "render"
    /\ display' = [display EXCEPT ![s] = @ \o FormElements(widgets[s])]
    /\ pc' = [pc EXCEPT ![s] = "button"]
    /\ UNCHANGED <<file, cache, lock, diskReads, loads, kept, model,
                   attempts, session_vars>>

\* st.button returned True: assumptions, feature row, prediction, results,
\* recommendation, then the footer.
CheckEligibility(s) ==
    /\ pc[s] = "button"
    /\ ButtonPressed(trigger[s])
    /\ LET row == BuildRow(widgets[s])
           prob == PredictProba(model[s], row)
       IN  /\ input_df' = [input_df EXCEPT ![s] = <<row>>]
           /\ display' = [display EXCEPT
                  ![s] = @ \o ResultElements(widgets[s], prob) \o Footer]
    /\ outcome' = [outcome EXCEPT ![s] = "ResultDisplayed"]
    /\ pc' = [pc EXCEPT ![s] = "idle"]
    /\ UNCHANGED <<file, cache, lock, diskReads, loads, kept, model,
                   attempts, trigger, widgets>>

\* st.button returned False: only the footer follows.
SkipEligibility(s) ==
    /\ pc[s] = "button"
    /\ ~ButtonPressed(trigger[s])
    /\ display' = [display EXCEPT ![s] = @ \o Footer]
    /\ outcome' = [outcome EXCEPT ![s] = "AwaitingSubmission"]
    /\ pc' = [pc EXCEPT ![s] = "idle"]
    /\ UNCHANGED <<file, cache, lock, diskReads, loads, kept, model,
                   attempts, trigger, widgets, input_df>>

-----------------------------------------------------------------------------
(* Environment *)

\* The training process writes, replaces or removes the artifact file.
ReplaceFile(f) ==
    /\ f # file
    /\ file' = f
    /\ UNCHANGED <<cache, lock, diskReads, loads, kept, pc, trigger, widgets,
                   model, input_df, display, outcome, attempts>>

Metric(d) == SelectSeq(d, LAMBDA e : e.kind = "metric")
Messages(d) ==
    SelectSeq(d, LAMBDA e : e.text \in {"manual_review", "conditional_approval",
        "further_assessment", "likely_eligible", "borderline", "low_likelihood"})
ShowsResult(s) == pc[s] = "idle" /\ Metric(display[s]) # <<>>

\* Somebody notes the result a session shows, with the row it came from.
Observe(s) ==
    /\ ShowsResult(s)
    /\ kept' = <<[session |-> s, row |-> input_df[s][1],
                  prob |-> Metric(display[s])[1].value[1],
                  messages |-> Messages(display[s]), rerun |-> FALSE]>>
    /\ kept' # kept
    /\ UNCHANGED <<file, cache, lock, diskReads, loads, pc, trigger, widgets,
                   model, input_df, display, outcome, attempts>>

Script(s) ==
    \/ CacheLookup(s)
    \/ AcquireAndRecheck(s)
    \/ JoblibLoadReturn(s)
    \/ JoblibLoadRaise(s)
    \/ RenderForm(s)
    \/ CheckEligibility(s)
    \/ SkipEligibility(s)

\* Concurrent sessions of one process.
Next ==
    \/ \E s \in Sessions : Connect(s)
    \/ \E s \in Sessions : Rerun(s)
    \/ \E s \in Sessions : PressButton(s)
    \/ \E s \in Sessions : \E f \in ConcurrentFields : \E v \in Domain(f) :
           SetWidget(s, f, v)
    \/ \E s \in Sessions : Script(s)
    \/ \E s \in Sessions : Observe(s)
    \/ \E f \in FileStates : ReplaceFile(f)

Spec == Init /\ [][Next]_vars

\* One session filling the whole form.
NextForm ==
    \/ Connect(FormSession)
    \/ Rerun(FormSession)
    \/ PressButton(FormSession)
    \/ \E f \in Fields : \E v \in Domain(f) : SetWidget(FormSession, f, v)
    \/ Script(FormSession)
    \/ \E f \in FileStates : ReplaceFile(f)

SpecForm == Init /\ [][NextForm]_vars

-----------------------------------------------------------------------------
(* Properties *)

Texts(d) == [i \in 1..Len(Messages(d)) |-> Messages(d)[i].text]
ResultParts(d) ==
    SelectSeq(d, LAMBDA e : e.kind \in {"metric", "progress"}) \o Messages(d)
Finished(s) == pc[s] = "idle" /\ outcome[s] # "NotStarted"
Prob(s) == Metric(display[s])[1].value[1]

\* C1: once a load_model() call has returned an artifact, no step of any
\* session reads the file again: the number of joblib.load calls stays what
\* it was, exactly one of them succeeded, the cache keeps its value and every
\* run that has its model has the cached object.
C1_ReadOnce ==
    [][loads >= 1 =>
         /\ diskReads' = diskReads
         /\ loads' = 1
         /\ cache' = cache
         /\ \A s \in Sessions : model'[s] \in {NoModel, cache'}]_vars

\* A run that finished after the file was replaced, without reading it.
C1_Witness ==
    \E s \in Sessions :
        /\ loads = 1 /\ file # cache
        /\ pc[s] = "idle" /\ outcome[s] = "ResultDisplayed"
        /\ attempts[s] = 0 /\ model[s] = cache

C3_NeverRetried ==
    [][\A s \in Sessions :
          outcome[s] = "ModelUnavailable" => attempts'[s] <= attempts[s]]_vars

\* C3 as amended: a failed load is terminal for the script run that made it
\* and is not retried within that run: a run reads the file at most once,
\* and a run whose read failed has ended as ModelUnavailable with nothing
\* but the exception on the page.
C3_TerminalForRun ==
    \A s \in Sessions :
        /\ attempts[s] <= 1
        /\ (attempts[s] = 1 /\ model[s] = NoModel) =>
              /\ pc[s] = "idle"
              /\ outcome[s] = "ModelUnavailable"
              /\ Len(display[s]) = 1 /\ display[s][1].kind = "exception"
              /\ input_df[s] = <<>>

\* A rerun of a session that had failed before read the file again.
C3_Witness ==
    \E s \in Sessions :
        /\ trigger[s] = "rerun" /\ pc[s] = "idle"
        /\ outcome[s] = "ModelUnavailable"
        /\ attempts[s] = 1 /\ diskReads >= 2 /\ loads = 0

\* C4: in every interleaving of the sessions at most one load succeeds in
\* the life of the process, and the cached artifact, once there, is never
\* written again.
C4_LoadedAtMostOnce ==
    [][loads' <= 1 /\ (cache # NoModel => cache' = cache)]_vars

\* One session loaded the artifact while another, which had missed the
\* cache, was waiting for the lock.
C4_Witness ==
    \E s, u \in Sessions :
        /\ s # u
        /\ pc[s] = "miss" /\ cache # NoModel
        /\ attempts[u] = 1 /\ model[u] = cache

\* C6: a result shown for a feature row equals, in probability and in
\* messages, any result noted earlier for the same row.
C6_Deterministic ==
    \A s \in Sessions :
        (ShowsResult(s) /\ kept # <<>> /\ kept[1].row = input_df[s][1]) =>
            /\ Prob(s) = kept[1].prob
            /\ Messages(display[s]) = kept[1].messages

\* The same session checked the same inputs again, after the file changed.
C6_Witness ==
    \E s \in Sessions :
        /\ ShowsResult(s) /\ kept # <<>>
        /\ kept[1].session = s /\ kept[1].rerun
        /\ kept[1].row = input_df[s][1]
        /\ file # cache

\* C5: the label thresholds are closed below.  Without the fresh-graduate
\* flag, 0.75 and more is "likely eligible", 0.50 up to 0.75 "borderline",
\* less than 0.50 "low likelihood"; with it, 0.80 and more is "conditional
\* approval", less "further assessment".
C5_ClosedLowerBounds ==
    \A s \in Sessions :
        ShowsResult(s) =>
            LET p == Prob(s)
                last == Texts(display[s])[Len(Texts(display[s]))]
            IN  IF widgets[s].is_fresh_grad = "No"
                THEN /\ p >= 7500 => last = "likely_eligible"
                     /\ (p >= 5000 /\ p < 7500) => last = "borderline"
                     /\ p < 5000 => last = "low_likelihood"
                ELSE /\ p >= 8000 => last = "conditional_approval"
                     /\ p < 8000 => last = "further_assessment"

\* Exactly 0.75 without the flag shows "likely eligible".
C5_Witness ==
    \E s \in Sessions :
        /\ ShowsResult(s) /\ widgets[s].is_fresh_grad = "No"
        /\ Prob(s) = 7500
        /\ Texts(display[s]) = <<"likely_eligible">>

\* C7: a run not started by the button builds no feature row and shows no
\* part of a result; a session is in ResultDisplayed only after a run the
\* button started, and what it then shows is the form and the result of the
\* widget values it has now.
C7_OnlyOnButton ==
    \A s \in Sessions :
        /\ trigger[s] # "button" =>
              /\ input_df[s] = <<>>
              /\ ResultParts(display[s]) = <<>>
              /\ pc[s] = "idle" => outcome[s] # "ResultDisplayed"
        /\ (pc[s] = "idle" /\ outcome[s] = "ResultDisplayed") =>
              /\ trigger[s] = "button"
              /\ input_df[s] = <<BuildRow(widgets[s])>>
              /\ display[s] =
                    FormElements(widgets[s])
                    \o ResultElements(widgets[s],
                                      PredictProba(cache, input_df[s][1]))
                    \o Footer
        /\ (pc[s] = "idle" /\ outcome[s] = "AwaitingSubmission") =>
              display[s] = FormElements(widgets[s]) \o Footer

\* A widget was changed: the run it caused shows the form and no result.
C7_Witness ==
    \E s \in Sessions :
        /\ trigger[s] = "widget" /\ pc[s] = "idle"
        /\ outcome[s] = "AwaitingSubmission"
        /\ widgets[s].income = 400000 /\ widgets[s].is_fresh_grad = "Yes"
        /\ display[s] = FormElements(widgets[s]) \o Footer

\* C8: the three assumed values of a feature row follow the fresh-graduate
\* flag and nothing else: 0, 0, 600 with it, 5, 5, 700 without.
C8_AssumptionsFromFlag ==
    \A s \in Sessions :
        input_df[s] # <<>> =>
            LET row == input_df[s][1]
            IN  IF widgets[s].is_fresh_grad = "Yes"
                THEN /\ row.person_emp_exp = 0
                     /\ row.cb_person_cred_hist_length = 0
                     /\ row.credit_score = 600
                ELSE /\ row.person_emp_exp = 5
                     /\ row.cb_person_cred_hist_length = 5
                     /\ row.credit_score = 700

\* A row without the flag, every other field away from its default.
C8_Witness ==
    \E s \in Sessions :
        /\ input_df[s] # <<>>
        /\ widgets[s] = [age |-> 18, education |-> "Master",
              is_fresh_grad |-> "No", home_ownership |-> "Own",
              previous_default |-> "Yes", income |-> 50,
              loan_amount |-> 300000]
        /\ input_df[s][1].credit_score = 700

\* C9: the feature row has exactly the 13 columns of the training data;
\* gender, intent and rate are "Male", "Personal" and 10.0; every other
\* column is its widget or assumed value; loan_percent_income is the loan
\* amount over the income floored at RM 1, the ratio the page shows.
C9_FeatureRow ==
    \A s \in Sessions :
        input_df[s] # <<>> =>
            LET row == input_df[s][1]
                w == widgets[s]
            IN  /\ DOMAIN row =
                      {"person_age", "person_gender", "person_education",
                       "person_emp_exp", "person_income", "loan_amnt",
                       "loan_intent", "loan_int_rate", "loan_percent_income",
                       "cb_person_cred_hist_length", "credit_score",
                       "person_home_ownership",
                       "previous_loan_defaults_on_file"}
                /\ row.person_gender = "Male"
                /\ row.loan_intent = "Personal"
                /\ row.loan_int_rate = 1000
                /\ row.person_age = w.age
                /\ row.person_education = w.education
                /\ row.person_income = w.income
                /\ row.loan_amnt = w.loan_amount
                /\ row.person_home_ownership = w.home_ownership
                /\ row.previous_loan_defaults_on_file = w.previous_default
                /\ row.person_emp_exp = Assumptions(w).emp_exp
                /\ row.cb_person_cred_hist_length = Assumptions(w).cred_hist
                /\ row.credit_score = Assumptions(w).credit_score
                /\ row.loan_percent_income =
                      <<w.loan_amount, IF w.income >= 100 THEN w.income ELSE 100>>
                /\ display[s][2].text = "loan_to_income"
                /\ display[s][2].value = <<Fmt2(row.loan_percent_income)>>

\* An income of 50 sen: the floor of RM 1 is the denominator.
C9_Witness ==
    \E s \in Sessions :
        /\ input_df[s] # <<>>
        /\ widgets[s].income = 50 /\ widgets[s].loan_amount = 50000
        /\ input_df[s][1].loan_percent_income = <<50000, 100>>
        /\ display[s][2].value = <<50000>>

\* C10: a check emits exactly one recommendation.  With the flag: the
\* manual-review warning, then one of the two fresh-graduate messages, and
\* no standard message.  Without it: one of the three standard messages and
\* no warning.
C10_OneRecommendation ==
    \A s \in Sessions :
        ShowsResult(s) =>
            LET m == Texts(display[s])
            IN  IF widgets[s].is_fresh_grad = "Yes"
                THEN /\ Len(m) = 2
                     /\ m[1] = "manual_review"
                     /\ m[2] \in {"conditional_approval", "further_assessment"}
                ELSE /\ Len(m) = 1
                     /\ m[1] \in {"likely_eligible", "borderline",
                                  "low_likelihood"}

C10_Witness ==
    \E s \in Sessions :
        /\ ShowsResult(s) /\ widgets[s].is_fresh_grad = "Yes"
        /\ Texts(display[s]) = <<"manual_review", "further_assessment">>

====
